---- MODULE Spec2Model ----
(***************************************************************************)
(* Job identity tracking and lifecycle polling of the Flink SQL benchmark  *)
(* (src/bigdata/bench/flink_bench.py): run_benchmark, cancel_all_jobs,     *)
(* _run_sql_job and _get_job_metrics, run against a control plane whose    *)
(* job listing changes under the program's feet.                           *)
(***************************************************************************)
EXTENDS Integers, Sequences, FiniteSets, TLC

\* ---------------------------------------------------------------- bounds
MaxJobs == 2
MaxRuns == 2
MaxVertices == 2

\* ------------------------------------------------------ program constants
max_wait == 120
poll_interval == 2
None == 0

KnownWorkloads == {"identity", "wordcount", "window"}
WorkloadArgs == KnownWorkloads \cup {"bogus"}

JobIds == 1..MaxJobs
LiveStatuses == {"CREATED", "RUNNING"}
TerminalStatuses == {"FINISHED", "FAILED", "CANCELED"}
Statuses == LiveStatuses \cup TerminalStatuses

VARIABLES
    jobs,              \* control plane: the listing GET /jobs returns, in its order
    nextId,            \* control plane: the next job id it will assign
    runNo,             \* number of run_benchmark calls started so far
    pc,                \* position of the current run_benchmark call
    workload,          \* run_benchmark's argument
    cl_jobs,           \* cancel_all_jobs: the listing it iterates over
    cl_i,              \* cancel_all_jobs: index of the next entry of cl_jobs
    existing_job_ids,  \* _run_sql_job: baseline
    returncode,        \* _run_sql_job: result.returncode of the SQL client
    tick,              \* _run_sql_job: iterations of the poll loop started
    job_id,            \* _run_sql_job: job_id
    final_status,      \* _run_sql_job: final_status
    final_metrics,     \* _run_sql_job: final_metrics
    results,           \* the dicts the current run_benchmark call has returned
    cancelLog,         \* history: cancel requests issued by this run's cleanup, in order
    cancelFailed,      \* history: ids whose cancel request raised in this run's cleanup
    cleanups,          \* history: cancel_all_jobs calls completed in this run
    submits,           \* history: submissions invoked in this run
    visibleAtSubmit,   \* history: ids the control plane listed when the submission was invoked
    brokeAt,           \* history: tick at which the loop took its break (None: never)
    gotMetrics,        \* history: a detail query for the job now tracked has answered in this run
    job_details,       \* _get_job_metrics: the answer of GET /jobs/{id}
    job_metrics,       \* _get_job_metrics: the job_metrics dict built from job_details
    summary,           \* run_benchmark: the locals of its summary (lines 446-466)
    metrics_returned,  \* _get_job_metrics: what a call without target_job_id returned
    runs,              \* two processes running the script at once: the locals of each
    slept,             \* history: seconds the poll loop has spent in time.sleep (line 265)
    queries            \* history: listing queries the poll loop has issued (line 270)

vars == <<jobs, nextId, runNo, pc, workload, cl_jobs, cl_i, existing_job_ids, returncode,
          tick, job_id, final_status, final_metrics, results, cancelLog, cancelFailed,
          cleanups, submits, visibleAtSubmit, brokeAt, gotMetrics, job_details, job_metrics,
          summary, metrics_returned, runs, slept, queries>>

cpVars == <<jobs, nextId>>
cleanupVars == <<cl_jobs, cl_i, cancelLog, cancelFailed, cleanups>>
monitorVars == <<existing_job_ids, returncode, tick, job_id, final_status, final_metrics,
                 submits, visibleAtSubmit, brokeAt, gotMetrics>>
runVars == <<runNo, workload, results>>
reportVars == <<job_details, job_metrics, summary>>
partVars == <<metrics_returned, runs, slept, queries>>

\* ---------------------------------------------------------------- helpers
IdsOf(listing) == {listing[i].id : i \in 1..Len(listing)}

InsertAt(s, k, e) == SubSeq(s, 1, k) \o <<e>> \o SubSeq(s, k + 1, Len(s))

RemoveAt(s, k) == SubSeq(s, 1, k - 1) \o SubSeq(s, k + 1, Len(s))

\* the empty dict {} and a dict with a "jobs" list
EmptyDict == [has_jobs |-> FALSE, jobs |-> <<>>]
MetricsDict(entries) == [has_jobs |-> TRUE, jobs |-> entries]

\* d.get(k, default) of a dict d, a function over the keys it has
Get(d, k, default) == IF k \in DOMAIN d THEN d[k] ELSE default

\* a dict without any key
NoKeys == [k \in {} |-> 0]

\* job_metrics and the summary's locals before anything was computed
NoJobMetrics ==
    [duration_ms |-> 0, records_in |-> 0, records_out |-> 0, bytes_in |-> 0, bytes_out |-> 0]

NoSummary ==
    [printed |-> FALSE, status |-> "UNKNOWN", elapsed_ms |-> 0, num_records |-> 0,
     reported |-> 0, records_in |-> 0, duration_ms |-> 0, duration |-> 0,
     throughput |-> [num |-> 0, den |-> 1]]

\* the two processes of the script run side by side
TwoRuns == {"a", "b"}

\* the locals of such a process before it calls run_benchmark; `submitted` is
\* history: the id the control plane gave the job its submission registered
NotStarted ==
    [pc |-> "idle", cl_jobs |-> <<>>, cl_i |-> 1, existing_job_ids |-> {},
     job_id |-> None, cancelLog |-> <<>>, submitted |-> None]

\* ------------------------------------------------------------------ Init
\* nothing has run: no job is listed, no call of run_benchmark has started
InitProgram ==
    /\ jobs = <<>>
    /\ nextId = 1
    /\ runNo = 0
    /\ workload = ""
    /\ cl_jobs = <<>>
    /\ cl_i = 1
    /\ existing_job_ids = {}
    /\ returncode = 0
    /\ tick = 0
    /\ job_id = None
    /\ final_status = "UNKNOWN"
    /\ final_metrics = EmptyDict
    /\ results = <<>>
    /\ cancelLog = <<>>
    /\ cancelFailed = {}
    /\ cleanups = 0
    /\ submits = 0
    /\ visibleAtSubmit = {}
    /\ brokeAt = None
    /\ gotMetrics = FALSE
    /\ metrics_returned = EmptyDict
    /\ runs = [r \in TwoRuns |-> NotStarted]
    /\ slept = 0
    /\ queries = 0

Init ==
    /\ InitProgram
    /\ pc = "idle"
    /\ job_details = NoKeys
    /\ job_metrics = NoJobMetrics
    /\ summary = NoSummary

\* ------------------------------------------------- pure parts of the code
\* _run_sql_job, lines 273-277: scan the listing in order, stop at the first
\* job whose id is not in existing_job_ids. The index of new_job, None if the
\* scan ends without one.
RECURSIVE ScanNewJob(_, _, _)
ScanNewJob(listing, baseline, i) ==
    IF i > Len(listing) THEN None
    ELSE IF listing[i].id \notin baseline THEN i
    ELSE ScanNewJob(listing, baseline, i + 1)

\* a scan that keeps the last job outside the baseline instead of stopping at
\* the first (the break of line 277 forgotten)
RECURSIVE ScanLastNew(_, _, _, _)
ScanLastNew(listing, baseline, i, found) ==
    IF i > Len(listing) THEN found
    ELSE ScanLastNew(listing, baseline, i + 1,
                     IF listing[i].id \notin baseline THEN i ELSE found)

NewJobLast(listing, baseline) == ScanLastNew(listing, baseline, 1, None)

NewJob(listing, baseline) == ScanNewJob(listing, baseline, 1)

\* lines 240-241: the ids of the baseline listing
BaselineIds(listing) == IdsOf(listing)

\* line 264 with an off-by-one bound: range(max_wait // poll_interval + 1)
LoopContinuesInclusive(t) == t <= max_wait \div poll_interval

\* line 264: range(max_wait // poll_interval) has another iteration after t
LoopContinues(t) == t < max_wait \div poll_interval

\* line 291 written as: status != "RUNNING"
IsFinalNotRunning(st) == st # "RUNNING"

\* line 291 with CANCELED left out of the list
IsFinalNoCanceled(st) == st \in {"FINISHED", "FAILED"}

\* line 291
IsFinal(st) == st \in {"FINISHED", "FAILED", "CANCELED"}

\* lines 306-307 without the test of final_status: exit code 0 decides
FallbackOverride(fs, rc) == IF rc = 0 THEN "FINISHED" ELSE fs

\* lines 306-307 with the test of the exit code inverted
FallbackInverted(fs, rc) == IF fs = "UNKNOWN" /\ rc # 0 THEN "FINISHED" ELSE fs

\* lines 306-307 without the test of the exit code
FallbackAlways(fs, rc) == IF fs = "UNKNOWN" THEN "FINISHED" ELSE fs

\* lines 306-307
Fallback(fs, rc) == IF fs = "UNKNOWN" /\ rc = 0 THEN "FINISHED" ELSE fs

\* cancel_all_jobs without the test of line 395: every listed job is cancelled
ShouldCancelAny(job) == TRUE

\* line 395 written as: every job that is not over yet
ShouldCancelLive(job) == job.status \in LiveStatuses

\* cancel_all_jobs, line 395
ShouldCancel(job) == job.status = "RUNNING"

\* _get_job_metrics with a target (lines 342-346): the entries of the listing
\* kept in jobs_to_check
RECURSIVE ScanTarget(_, _, _)
ScanTarget(listing, target, i) ==
    IF i > Len(listing) THEN <<>>
    ELSE IF listing[i].id = target THEN <<listing[i]>>
    ELSE ScanTarget(listing, target, i + 1)

\* line 349: the test a job passes when there is no target
NotCanceled(job) == job.status # "CANCELED"

\* lines 336-350 without the test of line 344: every job is kept
JobsToCheckAll(listing, target) == listing

\* lines 336-350: jobs_to_check, for a target and (target None) without one
JobsToCheck(listing, target) ==
    IF target # None THEN ScanTarget(listing, target, 1)
    ELSE SelectSeq(listing, NotCanceled)

\* _get_job_metrics (lines 329-383): every value the call can return when its
\* own listing query answers `listing`: {} when a query raises, else one entry
\* per job of jobs_to_check.
GetJobMetrics(listing, target) ==
    LET checked == JobsToCheck(listing, target)
        entries == [k \in 1..Len(checked) |->
                       [id |-> checked[k].id, status |-> checked[k].status]]
    IN  {EmptyDict, MetricsDict(entries)}

\* the dict _run_sql_job returns (lines 310-316)
SqlResult(jid, st, m) ==
    [kind |-> "sql", job_id |-> jid, status |-> st, metrics |-> m]

\* the {} run_benchmark returns for an unknown workload (line 439)
EmptyResult ==
    [kind |-> "empty", job_id |-> None, status |-> "", metrics |-> EmptyDict]

\* ------------------------------------------------------- the control plane
\* a job of some client (this program's submission or anyone else's) shows up
RegisterJob(k, st) ==
    /\ nextId <= MaxJobs
    /\ jobs' = InsertAt(jobs, k, [id |-> nextId, status |-> st])
    /\ nextId' = nextId + 1

\* the statuses a job listed with status st can show on a later listing
Later(st) ==
    IF st = "CREATED" THEN Statuses
    ELSE IF st = "RUNNING" THEN Statuses \ {"CREATED"}
    ELSE {st}

InRun == pc \notin {"idle", "done", "raised", "crashed"}

EnvActive == InRun \/ runNo < MaxRuns

JobAppears ==
    /\ EnvActive
    /\ \E k \in 0..Len(jobs), st \in LiveStatuses : RegisterJob(k, st)
    /\ UNCHANGED <<pc, cleanupVars, monitorVars, runVars>>
    /\ UNCHANGED reportVars
    /\ UNCHANGED partVars

JobAdvances ==
    /\ EnvActive
    /\ \E i \in 1..Len(jobs) :
          \E st \in Later(jobs[i].status) \ {jobs[i].status} :
             jobs' = [jobs EXCEPT ![i].status = st]
    /\ UNCHANGED <<nextId, pc, cleanupVars, monitorVars, runVars>>
    /\ UNCHANGED reportVars
    /\ UNCHANGED partVars

JobPurged ==
    /\ EnvActive
    /\ \E i \in 1..Len(jobs) :
          /\ jobs[i].status \in TerminalStatuses
          /\ jobs' = RemoveAt(jobs, i)
    /\ UNCHANGED <<nextId, pc, cleanupVars, monitorVars, runVars>>
    /\ UNCHANGED reportVars
    /\ UNCHANGED partVars

\* ------------------------------------------------------------ run_benchmark
\* the locals of a call that has not run yet
FreshLocals ==
    /\ cl_jobs' = <<>>
    /\ cl_i' = 1
    /\ existing_job_ids' = {}
    /\ returncode' = 0
    /\ tick' = 0
    /\ job_id' = None
    /\ final_status' = "UNKNOWN"
    /\ final_metrics' = EmptyDict
    /\ cancelLog' = <<>>
    /\ cancelFailed' = {}
    /\ cleanups' = 0
    /\ submits' = 0
    /\ visibleAtSubmit' = {}
    /\ brokeAt' = None
    /\ gotMetrics' = FALSE

\* run_benchmark without lines 419-422
EntryPointNoCleanup == "dispatch"

\* run_benchmark's first statement after the banner (line 421)
EntryPoint == "cleanup"

\* a call run_benchmark(workload = w, ...) for some w of args, made when the
\* program is at one of the positions of `from`, with `kept` the results the
\* caller still holds
CallRunBenchmark(from, args, kept) ==
    /\ pc \in from
    /\ runNo < MaxRuns
    /\ runNo' = runNo + 1
    /\ \E w \in args : workload' = w
    /\ pc' = EntryPoint
    /\ FreshLocals
    /\ results' = kept
    /\ UNCHANGED cpVars
    /\ UNCHANGED reportVars
    /\ UNCHANGED partVars

\* main, lines 557-566 (or the script run again after any end of the last run)
StartRun ==
    CallRunBenchmark({"idle", "done", "raised", "crashed"}, WorkloadArgs, <<>>)

\* the process dies in the middle of a run
Crash ==
    /\ InRun
    /\ pc' = "crashed"
    /\ workload' = ""
    /\ FreshLocals
    /\ UNCHANGED <<cpVars, runNo, results>>
    /\ UNCHANGED reportVars
    /\ UNCHANGED partVars

\* cancel_all_jobs with its listing query outside the try: a failure raises
\* through run_benchmark
CleanupListUnguarded ==
    /\ pc = "cleanup"
    /\ \/ /\ cl_jobs' = jobs
          /\ pc' = "cancel_loop"
       \/ /\ pc' = "raised"
          /\ UNCHANGED cl_jobs
    /\ UNCHANGED <<cpVars, cl_i, cancelLog, cancelFailed, cleanups, monitorVars, runVars>>
    /\ UNCHANGED reportVars
    /\ UNCHANGED partVars

\* cancel_all_jobs, lines 390-392: the listing query
CleanupList ==
    /\ pc = "cleanup"
    /\ \/ /\ cl_jobs' = jobs
          /\ pc' = "cancel_loop"
          /\ UNCHANGED cleanups
       \/ \* the query raises: line 402
          /\ pc' = "settle"
          /\ cleanups' = cleanups + 1
          /\ UNCHANGED cl_jobs
    /\ UNCHANGED <<cpVars, cl_i, cancelLog, cancelFailed, monitorVars, runVars>>
    /\ UNCHANGED reportVars
    /\ UNCHANGED partVars

\* the control plane's reaction to an accepted PATCH /jobs/{id}/cancel
Canceled(listing, id) ==
    [i \in 1..Len(listing) |->
        IF listing[i].id = id /\ listing[i].status \in LiveStatuses
        THEN [listing[i] EXCEPT !.status = "CANCELED"]
        ELSE listing[i]]

\* cancel_all_jobs, lines 394-403: one iteration of the loop over the listing,
\* or its end
CancelStep ==
    /\ pc = "cancel_loop"
    /\ IF cl_i > Len(cl_jobs)
       THEN /\ pc' = "settle"
            /\ cleanups' = cleanups + 1
            /\ UNCHANGED <<jobs, cl_i, cancelLog, cancelFailed, cl_jobs>>
       ELSE IF ShouldCancel(cl_jobs[cl_i])
       THEN /\ cancelLog' = Append(cancelLog, cl_jobs[cl_i].id)
            /\ \/ /\ jobs' = Canceled(jobs, cl_jobs[cl_i].id)
                  /\ cl_i' = cl_i + 1
                  /\ UNCHANGED <<pc, cleanups, cancelFailed, cl_jobs>>
               \/ \* the request raises: the except of line 402 ends the loop
                  /\ cancelFailed' = cancelFailed \cup {cl_jobs[cl_i].id}
                  /\ pc' = "settle"
                  /\ cleanups' = cleanups + 1
                  /\ UNCHANGED <<jobs, cl_i, cl_jobs>>
       ELSE /\ cl_i' = cl_i + 1
            /\ UNCHANGED <<jobs, pc, cleanups, cancelLog, cancelFailed, cl_jobs>>
    /\ UNCHANGED <<nextId, monitorVars, runVars>>
    /\ UNCHANGED reportVars
    /\ UNCHANGED partVars

\* run_benchmark, line 422: cancel_all_jobs has returned, its locals are gone
Settle ==
    /\ pc = "settle"
    /\ pc' = "dispatch"
    /\ cl_jobs' = <<>>
    /\ cl_i' = 1
    /\ UNCHANGED <<cpVars, cancelLog, cancelFailed, cleanups, monitorVars, runVars>>
    /\ UNCHANGED reportVars
    /\ UNCHANGED partVars

\* run_benchmark, lines 425-439. The workload name is read here for the last
\* time (the job name it becomes is only printed and copied into the result).
Dispatch ==
    /\ pc = "dispatch"
    /\ IF workload \in KnownWorkloads
       THEN /\ pc' = "copy"
            /\ UNCHANGED results
       ELSE /\ results' = Append(results, EmptyResult)
            /\ pc' = "done"
    /\ workload' = ""
    /\ UNCHANGED <<cpVars, cleanupVars, monitorVars, runNo>>
    /\ UNCHANGED reportVars
    /\ UNCHANGED partVars

\* ------------------------------------------------------------- _run_sql_job
\* lines 226-232: write the SQL file and docker cp it; run() has check=True,
\* so a failing copy raises through run_benchmark and main
CopyToContainer ==
    /\ pc = "copy"
    /\ \/ pc' = "baseline"
       \/ pc' = "raised"
    /\ UNCHANGED <<cpVars, cleanupVars, monitorVars, runVars>>
    /\ UNCHANGED reportVars
    /\ UNCHANGED partVars

\* lines 234-243: the baseline, empty when the query raises
BaselineList ==
    /\ pc = "baseline"
    /\ \/ existing_job_ids' = BaselineIds(jobs)
       \/ existing_job_ids' = {}
    /\ pc' = "submit"
    /\ UNCHANGED <<cpVars, cleanupVars, returncode, tick, job_id, final_status,
                   final_metrics, submits, visibleAtSubmit, brokeAt, gotMetrics, runVars>>
    /\ UNCHANGED reportVars
    /\ UNCHANGED partVars

\* lines 245-262: the SQL client runs to its end, whatever its exit code;
\* `registers` holds TRUE when it can have registered a job and FALSE when it
\* can have registered none
SubmitBy(registers) ==
    /\ pc = "submit"
    /\ visibleAtSubmit' = IdsOf(jobs)
    /\ submits' = submits + 1
    /\ \E rc \in {0, 1} : returncode' = rc
    /\ \/ /\ TRUE \in registers
          /\ \E k \in 0..Len(jobs), st \in LiveStatuses : RegisterJob(k, st)
       \/ /\ FALSE \in registers
          /\ UNCHANGED cpVars
    /\ job_id' = None
    /\ final_status' = "UNKNOWN"
    /\ final_metrics' = EmptyDict
    /\ tick' = 0
    /\ pc' = "loop"
    /\ cancelLog' = <<>>
    /\ cancelFailed' = {}
    /\ UNCHANGED <<cl_jobs, cl_i, cleanups, existing_job_ids, brokeAt, gotMetrics, runVars>>
    /\ UNCHANGED reportVars
    /\ UNCHANGED partVars

\* the SQL client may or may not have registered a job
Submit == SubmitBy({TRUE, FALSE})

\* line 264: the for loop has another iteration
PollGuard == pc = "loop" /\ LoopContinues(tick)

\* a failed listing query taken as the end of the loop (a break in the except
\* of lines 300-301)
PollErrorBreak ==
    /\ PollGuard
    /\ tick' = tick + 1
    /\ pc' = "after_loop"
    /\ UNCHANGED <<cpVars, cleanupVars, existing_job_ids, returncode, job_id,
                   final_status, final_metrics, submits, visibleAtSubmit, brokeAt, gotMetrics,
                   runVars>>
    /\ UNCHANGED reportVars
    /\ UNCHANGED partVars

\* lines 265-271 and 300-301: sleep, then the listing query raises
PollError ==
    /\ PollGuard
    /\ tick' = tick + 1
    /\ UNCHANGED <<cpVars, pc, cleanupVars, existing_job_ids, returncode, job_id,
                   final_status, final_metrics, submits, visibleAtSubmit, brokeAt, gotMetrics,
                   runVars>>
    /\ UNCHANGED reportVars
    /\ UNCHANGED partVars

\* a tick without a new job that forgets the job of the ticks before it
\* (job_id = None in the else of lines 296-298)
PollWaitingForgets ==
    /\ PollGuard
    /\ NewJob(jobs, existing_job_ids) = None
    /\ tick' = tick + 1
    /\ job_id' = None
    /\ UNCHANGED <<cpVars, pc, cleanupVars, existing_job_ids, returncode,
                   final_status, final_metrics, submits, visibleAtSubmit, brokeAt, gotMetrics,
                   runVars>>
    /\ UNCHANGED reportVars
    /\ UNCHANGED partVars

\* lines 265-279 and 296-298: sleep, list, no job outside the baseline
PollWaiting ==
    /\ PollGuard
    /\ NewJob(jobs, existing_job_ids) = None
    /\ tick' = tick + 1
    /\ UNCHANGED <<cpVars, pc, cleanupVars, existing_job_ids, returncode, job_id,
                   final_status, final_metrics, submits, visibleAtSubmit, brokeAt, gotMetrics,
                   runVars>>
    /\ UNCHANGED reportVars
    /\ UNCHANGED partVars

\* the listings the control plane can answer to the metrics call, a moment
\* after it answered `listing` to the poll: the job `id` as it was, further in
\* its life, or purged
Moment(listing, id) ==
    LET at == CHOOSE i \in 1..Len(listing) : listing[i].id = id
    IN  {[listing EXCEPT ![at].status = st] : st \in Later(listing[at].status)}
        \cup {RemoveAt(listing, at)}

\* lines 265-295: sleep, list, a job outside the baseline is found, its
\* metrics are fetched, and its status (as the poll listed it) is tested
PollTracked(isFinal) ==
    /\ PollGuard
    /\ NewJob(jobs, existing_job_ids) # None
    /\ LET new_job == jobs[NewJob(jobs, existing_job_ids)]
       IN  /\ IsFinal(new_job.status) = isFinal
           /\ tick' = tick + 1
           /\ job_id' = new_job.id
           /\ \E later \in Moment(jobs, new_job.id) :
                 /\ jobs' = later
                 /\ \E metrics \in GetJobMetrics(later, new_job.id) :
                       /\ gotMetrics' = \/ metrics.jobs # <<>>
                                        \/ gotMetrics /\ job_id = new_job.id
                       /\ IF isFinal
                          THEN /\ final_status' = new_job.status
                               /\ final_metrics' = metrics
                               /\ brokeAt' = tick'
                               /\ pc' = "after_loop"
                          ELSE UNCHANGED <<final_status, final_metrics, brokeAt, pc>>
    /\ UNCHANGED <<nextId, cleanupVars, existing_job_ids, returncode, submits,
                   visibleAtSubmit, runVars>>
    /\ UNCHANGED reportVars
    /\ UNCHANGED partVars

PollRunning == PollTracked(FALSE)

PollFinal == PollTracked(TRUE)

\* line 264: range() is exhausted
LoopExit ==
    /\ pc = "loop"
    /\ ~LoopContinues(tick)
    /\ pc' = "after_loop"
    /\ UNCHANGED <<cpVars, cleanupVars, monitorVars, runVars>>
    /\ UNCHANGED reportVars
    /\ UNCHANGED partVars

\* lines 303-316, and run_benchmark's return of line 478
Return ==
    /\ pc = "after_loop"
    /\ final_status' = Fallback(final_status, returncode)
    /\ results' = Append(results, SqlResult(job_id, final_status', final_metrics))
    /\ pc' = "done"
    /\ gotMetrics' = FALSE
    /\ UNCHANGED <<cpVars, cleanupVars, existing_job_ids, returncode, tick, job_id,
                   final_metrics, submits, visibleAtSubmit, brokeAt, runNo, workload>>
    /\ UNCHANGED reportVars
    /\ UNCHANGED partVars

\* -------------------------------------- _get_job_metrics: the job_metrics dict
\* the counters a vertex of GET /jobs/{id} can report (lines 373-376)
CounterKeys == {"read-records", "write-records", "read-bytes", "write-bytes"}

\* the counters that count bytes
ByteCounters == {"read-bytes", "write-bytes"}

\* records a vertex can have read or written; it moves 100 bytes per record
CounterValues == {1, 2}

\* vertex.get("metrics", {}) of a vertex: every counter may be missing, and so
\* may the metrics dict itself (no key at all)
VertexMetrics ==
    {[k \in S |-> IF k \in ByteCounters THEN 100 * v ELSE v] :
        S \in SUBSET CounterKeys, v \in CounterValues}

VertexLists == UNION {[1..n -> VertexMetrics] : n \in 0..MaxVertices}

\* "duration" of a job's details, in milliseconds
DurationsMs == {0, 1000, 2000, 3000}

\* the answers of GET /jobs/{id}: "duration" and "vertices" may each be missing
DetailsAnswers ==
    {[k \in S |-> IF k = "duration" THEN d ELSE vs] :
        S \in SUBSET {"duration", "vertices"}, d \in DurationsMs, vs \in VertexLists}

\* lines 373-376 written with = in place of +=
AddVertexAssign(jm, vm) ==
    [jm EXCEPT !.records_in = Get(vm, "read-records", 0),
               !.records_out = Get(vm, "write-records", 0),
               !.bytes_in = Get(vm, "read-bytes", 0),
               !.bytes_out = Get(vm, "write-bytes", 0)]

\* lines 372-376: one iteration of the loop over the vertices
AddVertex(jm, vm) ==
    [jm EXCEPT !.records_in = @ + Get(vm, "read-records", 0),
               !.records_out = @ + Get(vm, "write-records", 0),
               !.bytes_in = @ + Get(vm, "read-bytes", 0),
               !.bytes_out = @ + Get(vm, "write-bytes", 0)]

\* line 371: the loop over job_details.get("vertices", []), from vertex i on
RECURSIVE AddVertices(_, _, _)
AddVertices(jm, vertices, i) ==
    IF i > Len(vertices) THEN jm
    ELSE AddVertices(AddVertex(jm, vertices[i]), vertices, i + 1)

\* lines 360-376: job_metrics as built from job_details (id, name and status
\* come from the listing and are left out here)
JobMetrics(details) ==
    AddVertices([duration_ms |-> Get(details, "duration", 0), records_in |-> 0,
                 records_out |-> 0, bytes_in |-> 0, bytes_out |-> 0],
                Get(details, "vertices", <<>>), 1)

\* lines 356-378 for one job of jobs_to_check
Aggregate ==
    /\ pc = "details"
    /\ job_metrics' = JobMetrics(job_details)
    /\ pc' = "summary"
    /\ UNCHANGED <<cpVars, cleanupVars, monitorVars, runVars, job_details, summary>>
    /\ UNCHANGED partVars

\* ----------------------------------------- run_benchmark: the summary it prints
\* elapsed_sec of a result, in milliseconds (a run sleeps 2 s at least once)
ElapsedMs == {2000, 4000}

\* the num_records argument
NumRecords == {3, 7}

\* line 459 with the elapsed time always taken
DurationSecElapsed(duration_ms, elapsed) == elapsed

\* line 459: duration_sec, here in milliseconds
DurationSec(duration_ms, elapsed) == IF duration_ms > 0 THEN duration_ms ELSE elapsed

\* lines 455 and 463-464: records_in as the throughput uses it
RecordsProcessed(status, records_in, num_records) ==
    IF status = "FINISHED" THEN num_records ELSE records_in

\* line 466: records per second, as the fraction num / den, for a duration
\* given in milliseconds
Throughput(records_in, duration) ==
    IF duration > 0 THEN [num |-> records_in * 1000, den |-> duration]
    ELSE [num |-> 0, den |-> 1]

\* lines 446-466: the locals of the summary for a result with this status,
\* elapsed time and metrics
Summary(status, elapsed, metrics, num_records) ==
    IF metrics.jobs # <<>>
    THEN LET job == metrics.jobs[1]
             duration == DurationSec(job.duration_ms, elapsed)
             records_in == RecordsProcessed(status, job.records_in, num_records)
         IN  [printed |-> TRUE, status |-> status, elapsed_ms |-> elapsed,
              num_records |-> num_records, reported |-> job.records_in,
              records_in |-> records_in, duration_ms |-> job.duration_ms,
              duration |-> duration, throughput |-> Throughput(records_in, duration)]
    ELSE [NoSummary EXCEPT !.status = status, !.elapsed_ms = elapsed,
                           !.num_records = num_records]

\* lines 441-478 for the result of a run that tracked the job of job_metrics
Summarize ==
    /\ pc = "summary"
    /\ \E status \in TerminalStatuses \cup {"UNKNOWN"}, elapsed \in ElapsedMs,
          num_records \in NumRecords, metrics \in {EmptyDict, MetricsDict(<<job_metrics>>)} :
             summary' = Summary(status, elapsed, metrics, num_records)
    /\ job_details' = NoKeys
    /\ pc' = "reported"
    /\ UNCHANGED <<cpVars, cleanupVars, monitorVars, runVars, job_metrics>>
    /\ UNCHANGED partVars

\* ------------------------------------------ _get_job_metrics without a target
\* a call _get_job_metrics(flink_host, flink_port), made while no run is in
\* progress (lines 329-383 with target_job_id = None)
QueryMetrics ==
    /\ pc = "idle"
    /\ \E m \in GetJobMetrics(jobs, None) : metrics_returned' = m
    /\ UNCHANGED <<cpVars, pc, cleanupVars, monitorVars, runVars, runs, slept, queries>>
    /\ UNCHANGED reportVars

\* ------------------------------------- two runs against one control plane
\* what a step of one of the two processes leaves alone
loneVars ==
    <<pc, cleanupVars, monitorVars, runVars, reportVars, metrics_returned, slept, queries>>

\* run_benchmark is called in process r (lines 419-421)
RunStart(r) ==
    /\ runs[r].pc = "idle"
    /\ runs' = [runs EXCEPT ![r].pc = "cleanup"]
    /\ UNCHANGED <<cpVars, loneVars>>

\* cancel_all_jobs in process r, lines 390-392 and 402: the listing query
\* answers, or raises and ends the cleanup
RunCleanupList(r) ==
    /\ runs[r].pc = "cleanup"
    /\ \/ runs' = [runs EXCEPT ![r].cl_jobs = jobs, ![r].pc = "cancel_loop"]
       \/ runs' = [runs EXCEPT ![r].pc = "baseline"]
    /\ UNCHANGED <<cpVars, loneVars>>

\* cancel_all_jobs in process r, lines 394-403: one iteration of the loop, or
\* its end; the process then goes on (lines 422-232) to its baseline
RunCancelStep(r) ==
    /\ runs[r].pc = "cancel_loop"
    /\ LET cl == runs[r].cl_jobs
           i == runs[r].cl_i
       IN  IF i > Len(cl)
           THEN /\ runs' = [runs EXCEPT ![r].pc = "baseline", ![r].cl_jobs = <<>>,
                                        ![r].cl_i = 1]
                /\ UNCHANGED jobs
           ELSE IF ShouldCancel(cl[i])
           THEN \/ /\ jobs' = Canceled(jobs, cl[i].id)
                   /\ runs' = [runs EXCEPT ![r].cancelLog = Append(@, cl[i].id),
                                           ![r].cl_i = i + 1]
                \/ \* the request raises: line 402
                   /\ runs' = [runs EXCEPT ![r].cancelLog = Append(@, cl[i].id),
                                           ![r].pc = "baseline", ![r].cl_jobs = <<>>,
                                           ![r].cl_i = 1]
                   /\ UNCHANGED jobs
           ELSE /\ runs' = [runs EXCEPT ![r].cl_i = i + 1]
                /\ UNCHANGED jobs
    /\ UNCHANGED <<nextId, loneVars>>

\* _run_sql_job in process r, lines 234-243: the baseline, empty when the
\* query raises
RunBaseline(r) ==
    /\ runs[r].pc = "baseline"
    /\ \E base \in {BaselineIds(jobs), {}} :
          runs' = [runs EXCEPT ![r].existing_job_ids = base, ![r].pc = "submit"]
    /\ UNCHANGED <<cpVars, loneVars>>

\* _run_sql_job in process r, lines 245-262: its SQL client registers one job
RunSubmit(r) ==
    /\ runs[r].pc = "submit"
    /\ \E k \in 0..Len(jobs), st \in LiveStatuses : RegisterJob(k, st)
    /\ runs' = [runs EXCEPT ![r].submitted = nextId, ![r].job_id = None,
                            ![r].pc = "loop"]
    /\ UNCHANGED loneVars

\* _run_sql_job in process r, lines 264-301: a poll tick that finds a job
\* outside the baseline of r and takes its id (a tick that fails or finds none
\* changes nothing; the ticks are not counted here, each process needs one
\* tick to resolve an id); the loop is left when that job is listed as over
RunPoll(r) ==
    /\ runs[r].pc = "loop"
    /\ NewJob(jobs, runs[r].existing_job_ids) # None
    /\ LET new_job == jobs[NewJob(jobs, runs[r].existing_job_ids)]
       IN  runs' = [runs EXCEPT ![r].job_id = new_job.id,
                                ![r].pc = IF IsFinal(new_job.status) THEN "done" ELSE "loop"]
    /\ UNCHANGED <<cpVars, loneVars>>

NextPair ==
    \/ JobAdvances
    \/ JobPurged
    \/ \E r \in TwoRuns : RunStart(r)
    \/ \E r \in TwoRuns : RunCleanupList(r)
    \/ \E r \in TwoRuns : RunCancelStep(r)
    \/ \E r \in TwoRuns : RunBaseline(r)
    \/ \E r \in TwoRuns : RunSubmit(r)
    \/ \E r \in TwoRuns : RunPoll(r)

SpecPair == Init /\ [][NextPair]_vars

Next ==
    \/ JobAppears
    \/ JobAdvances
    \/ JobPurged
    \/ StartRun
    \/ Crash
    \/ CleanupList
    \/ CancelStep
    \/ Settle
    \/ Dispatch
    \/ CopyToContainer
    \/ BaselineList
    \/ Submit
    \/ PollError
    \/ PollWaiting
    \/ PollRunning
    \/ PollFinal
    \/ LoopExit
    \/ Return

Spec == Init /\ [][Next]_vars

\* ------------------------------------------ the listing query is out of reach
\* every GET /jobs of the poll loop raises: of the ticks, only PollError is left
NextListingDown ==
    \/ JobAppears
    \/ JobAdvances
    \/ JobPurged
    \/ StartRun
    \/ Crash
    \/ CleanupList
    \/ CancelStep
    \/ Settle
    \/ Dispatch
    \/ CopyToContainer
    \/ BaselineList
    \/ Submit
    \/ PollError
    \/ LoopExit
    \/ Return

SpecListingDown == Init /\ [][NextListingDown]_vars

\* ------------------------------------------------- the same workload, twice
RerunWorkload == "identity"

\* run_benchmark called again with the same workload once the call before it
\* has returned, the caller keeping the results (main, lines 557-566)
RunAgain == CallRunBenchmark({"idle", "done"}, {RerunWorkload}, results)

\* every submission registers one fresh job
SubmitFresh == SubmitBy({TRUE})

\* the only jobs of this control plane are the ones the submissions register
NextRerun ==
    \/ JobAdvances
    \/ JobPurged
    \/ RunAgain
    \/ CleanupList
    \/ CancelStep
    \/ Settle
    \/ Dispatch
    \/ CopyToContainer
    \/ BaselineList
    \/ SubmitFresh
    \/ PollError
    \/ PollWaiting
    \/ PollRunning
    \/ PollFinal
    \/ LoopExit
    \/ Return

SpecRerun == Init /\ [][NextRerun]_vars

\* ------------------------------------------------ metrics and summary alone
InitReport ==
    /\ InitProgram
    /\ pc = "details"
    /\ job_details \in DetailsAnswers
    /\ job_metrics = NoJobMetrics
    /\ summary = NoSummary

NextReport ==
    \/ Aggregate
    \/ Summarize

SpecReport == InitReport /\ [][NextReport]_vars

\* ------------------------------------- the metrics query on its own, no target
NextQuery ==
    \/ JobAppears
    \/ JobAdvances
    \/ JobPurged
    \/ QueryMetrics

SpecQuery == Init /\ [][NextQuery]_vars

\* main with one workload (lines 557-566): run_benchmark is called once
RunOnce == CallRunBenchmark({"idle"}, WorkloadArgs, <<>>)

\* ------------------------------- submission and poll loop, statement by statement
\* lines 245-253: the SQL client is started; run() returns when it has ended
SubmitCall ==
    /\ pc = "submit"
    /\ visibleAtSubmit' = IdsOf(jobs)
    /\ submits' = submits + 1
    /\ pc' = "submitting"
    /\ UNCHANGED <<cpVars, cleanupVars, existing_job_ids, returncode, tick, job_id,
                   final_status, final_metrics, brokeAt, gotMetrics, runVars>>
    /\ UNCHANGED reportVars
    /\ UNCHANGED partVars

\* lines 249-262: the SQL client has ended, with or without a job registered;
\* the locals of the loop are set
SubmitReturn ==
    /\ pc = "submitting"
    /\ \E rc \in {0, 1} : returncode' = rc
    /\ \/ \E k \in 0..Len(jobs), st \in LiveStatuses : RegisterJob(k, st)
       \/ UNCHANGED cpVars
    /\ job_id' = None
    /\ final_status' = "UNKNOWN"
    /\ final_metrics' = EmptyDict
    /\ tick' = 0
    /\ pc' = "loop"
    /\ UNCHANGED <<cleanupVars, existing_job_ids, submits, visibleAtSubmit, brokeAt,
                   gotMetrics, runVars>>
    /\ UNCHANGED reportVars
    /\ UNCHANGED partVars

\* a loop body without line 265
SleepSkipped ==
    /\ PollGuard
    /\ tick' = tick + 1
    /\ pc' = "slept"
    /\ UNCHANGED <<cpVars, cleanupVars, existing_job_ids, returncode, job_id, final_status,
                   final_metrics, submits, visibleAtSubmit, brokeAt, gotMetrics, runVars>>
    /\ UNCHANGED reportVars
    /\ UNCHANGED partVars

\* lines 264-265: the loop starts an iteration and sleeps poll_interval seconds
Sleep ==
    /\ PollGuard
    /\ tick' = tick + 1
    /\ slept' = slept + poll_interval
    /\ pc' = "slept"
    /\ UNCHANGED <<cpVars, cleanupVars, existing_job_ids, returncode, job_id, final_status,
                   final_metrics, submits, visibleAtSubmit, brokeAt, gotMetrics, runVars>>
    /\ UNCHANGED reportVars
    /\ UNCHANGED <<metrics_returned, runs, queries>>

\* lines 268-301: the listing query of this iteration and what the rest of the
\* body makes of its answer
ListQuery ==
    /\ pc = "slept"
    /\ queries' = queries + 1
    /\ \/ \* the query raises (lines 300-301)
          /\ pc' = "loop"
          /\ UNCHANGED <<jobs, job_id, final_status, final_metrics, brokeAt>>
       \/ \* no job outside the baseline (lines 296-298)
          /\ NewJob(jobs, existing_job_ids) = None
          /\ pc' = "loop"
          /\ UNCHANGED <<jobs, job_id, final_status, final_metrics, brokeAt>>
       \/ \* lines 279-295
          /\ NewJob(jobs, existing_job_ids) # None
          /\ LET new_job == jobs[NewJob(jobs, existing_job_ids)]
             IN  /\ job_id' = new_job.id
                 /\ \E later \in Moment(jobs, new_job.id) :
                       /\ jobs' = later
                       /\ \E m \in GetJobMetrics(later, new_job.id) :
                             IF IsFinal(new_job.status)
                             THEN /\ final_status' = new_job.status
                                  /\ final_metrics' = m
                                  /\ brokeAt' = tick
                                  /\ pc' = "after_loop"
                             ELSE /\ pc' = "loop"
                                  /\ UNCHANGED <<final_status, final_metrics, brokeAt>>
    /\ UNCHANGED <<nextId, cleanupVars, existing_job_ids, returncode, tick, submits,
                   visibleAtSubmit, gotMetrics, runVars>>
    /\ UNCHANGED reportVars
    /\ UNCHANGED <<metrics_returned, runs, slept>>

NextTimed ==
    \/ JobAdvances
    \/ JobPurged
    \/ RunOnce
    \/ CleanupList
    \/ CancelStep
    \/ Settle
    \/ Dispatch
    \/ CopyToContainer
    \/ BaselineList
    \/ SubmitCall
    \/ SubmitReturn
    \/ Sleep
    \/ ListQuery
    \/ LoopExit
    \/ Return

SpecTimed == Init /\ [][NextTimed]_vars

\* --------------------------------------------- the poll loop under fairness
\* one iteration of the loop of line 264, whatever it finds
PollTick ==
    \/ PollError
    \/ PollWaiting
    \/ PollRunning
    \/ PollFinal

\* one run that nobody kills; the control plane holds the job of this run's
\* submission, if that registered one, and moves it or purges it as it likes
NextOnce ==
    \/ JobAdvances
    \/ JobPurged
    \/ RunOnce
    \/ CleanupList
    \/ CancelStep
    \/ Settle
    \/ Dispatch
    \/ CopyToContainer
    \/ BaselineList
    \/ Submit
    \/ PollError
    \/ PollWaiting
    \/ PollRunning
    \/ PollFinal
    \/ LoopExit
    \/ Return

\* The program keeps stepping once the submission has returned: the sleep of
\* line 265 ends, the queries of lines 270, 331 and 357 carry timeout=5 and
\* answer or raise, and nothing after the loop waits for anything. The control
\* plane owes nothing: no fairness on its actions.
SpecFair ==
    /\ Init
    /\ [][NextOnce]_vars
    /\ WF_vars(PollTick)
    /\ WF_vars(LoopExit)
    /\ WF_vars(Return)

TypeOK ==
    /\ nextId \in 1..(MaxJobs + 1)
    /\ runNo \in 0..MaxRuns
    /\ tick \in 0..(max_wait \div poll_interval)
    /\ job_id \in JobIds \cup {None}
    /\ final_status \in TerminalStatuses \cup {"UNKNOWN"}
    /\ Len(results) <= 1

\* ================================================================== claims
\* the one result of a finished _run_sql_job call
SqlDone == pc = "done" /\ Len(results) = 1 /\ results[1].kind = "sql"

\* the loop ran out of iterations without taking its break
Exhausted == brokeAt = None

IsFirstNew(listing, baseline, i) ==
    /\ i \in 1..Len(listing)
    /\ listing[i].id \notin baseline
    /\ \A j \in 1..(i - 1) : listing[j].id \in baseline

ExampleListing ==
    << [id |-> 1, status |-> "FINISHED"], [id |-> 3, status |-> "RUNNING"],
       [id |-> 2, status |-> "RUNNING"], [id |-> 4, status |-> "CREATED"] >>

\* C2: on every poll tick whose listing query answers, the job picked as new is
\* the first entry, in listing order, whose id is not in the baseline, and no
\* job is picked when every listed id is in the baseline; baseline {A,B} and
\* listing [A,C,B,D] pick C.
C2_PicksFirstNew ==
    [][ /\ PollWaiting => IdsOf(jobs) \subseteq existing_job_ids
        /\ (PollRunning \/ PollFinal) =>
              \E i \in 1..Len(jobs) :
                 /\ IsFirstNew(jobs, existing_job_ids, i)
                 /\ job_id' = jobs[i].id
        /\ NewJob(ExampleListing, {1, 2}) = 2
      ]_vars

\* a tick has picked a job that a baseline job precedes in the listing
C2_Witness ==
    /\ pc = "loop"
    /\ job_id # None
    /\ \E i, j \in 1..Len(jobs) :
          /\ i < j
          /\ jobs[i].id \in existing_job_ids
          /\ jobs[j].id = job_id

\* ---------------------------------------------------------------------- C3
\* C3: once a poll tick has resolved a job id, every later tick of the same run
\* keeps it, whatever the listing shows afterwards, and the result carries it.
C3_ResolvedIdIsKept ==
    [][ (job_id # None /\ runNo' = runNo /\ pc' # "crashed") => job_id' = job_id ]_vars

\* ---------------------------------------------------------------------- C4
\* C4: the job_id of a run's result is never the id of a job the control plane
\* already listed when this run's submission was invoked, whether the baseline
\* listing query succeeded or failed.
C4_NeverTracksStaleJob ==
    SqlDone => results[1].job_id \notin visibleAtSubmit

\* ---------------------------------------------------------------------- C5
\* C5: in every run, whatever the end of the run before it, the cleanup step
\* has been executed when the submission is invoked: no run is about to submit
\* or has submitted without its cancel_all_jobs call having completed.
C5_CleanupBeforeSubmission ==
    (pc = "submit" \/ submits > 0) => cleanups = 1

\* a second run has submitted
C5_Witness ==
    /\ runNo = 2
    /\ submits = 1
    /\ cleanups = 1

\* ---------------------------------------------------------------------- C6
\* C6: when a cancel request of the cleanup fails, a cancel request is still
\* issued for every other RUNNING job of the cleanup's listing.
C6_CancelsAreIndependent ==
    (pc = "settle" /\ cancelFailed # {}) =>
        \A i \in 1..Len(cl_jobs) :
           cl_jobs[i].status = "RUNNING" =>
              \E k \in 1..Len(cancelLog) : cancelLog[k] = cl_jobs[i].id

\* ---------------------------------------------------------------------- C7
\* C7: when the submission reports failure (non-zero exit code), no poll tick
\* is performed and the result status is FAILED.
C7_SubmissionFailureIsImmediate ==
    (SqlDone /\ returncode # 0) => (tick = 0 /\ results[1].status = "FAILED")

\* ---------------------------------------------------------------------- C8
\* C8: whenever the loop ends without an observed terminal status (no job ever
\* resolved, or the resolved job still not terminal when the budget ran out)
\* and the submission's exit code is 0, the result status is FINISHED and the
\* result carries no metrics.
C8_FallbackOnSuccess ==
    (SqlDone /\ Exhausted /\ returncode = 0) =>
        /\ results[1].status = "FINISHED"
        /\ results[1].metrics = EmptyDict

\* a job was resolved, never seen terminal, and the submission succeeded
C8_Witness ==
    /\ SqlDone
    /\ Exhausted
    /\ returncode = 0
    /\ results[1].job_id # None
    /\ \E i \in 1..Len(jobs) : jobs[i].id = job_id /\ jobs[i].status = "RUNNING"

\* ---------------------------------------------------------------------- C9
\* C9: when no poll shows the tracked job with a terminal status and the
\* submission's exit code is non-zero, the run ends with status UNKNOWN after
\* exactly max_wait / poll_interval poll ticks (60 ticks of 2 for 120), not
\* fewer and not more.
C9_TimeoutAfterExactlyAllTicks ==
    (SqlDone /\ Exhausted /\ returncode # 0) =>
        /\ results[1].status = "UNKNOWN"
        /\ tick = max_wait \div poll_interval
        /\ tick = 60

C9_Witness ==
    /\ SqlDone
    /\ Exhausted
    /\ returncode # 0
    /\ results[1].job_id # None
    /\ results[1].status = "UNKNOWN"
    /\ tick = 60

\* --------------------------------------------------------------------- C10
\* the entry of the listing that the tick now ending picked
PickedEntry == jobs[CHOOSE i \in 1..Len(jobs) : jobs[i].id = job_id']

\* C10: the tick on which the job it tracks is listed with a terminal status
\* takes the break: the loop exits on that tick, no later tick (so no later
\* listing or detail query) happens, and the result carries that status and
\* that job's id; a tick on which the job is listed as not terminal does not.
C10_TerminalShortCircuit ==
    [][ /\ (PollRunning \/ PollFinal) =>
              IF PickedEntry.status \in TerminalStatuses
              THEN /\ pc' = "after_loop"
                   /\ brokeAt' = tick + 1
                   /\ tick' = tick + 1
                   /\ final_status' = PickedEntry.status
              ELSE /\ pc' = "loop"
                   /\ brokeAt' = None
        /\ (brokeAt # None /\ brokeAt' # None) => (tick' = tick /\ brokeAt' = tick)
        /\ (brokeAt # None /\ pc = "after_loop" /\ pc' = "done") =>
              /\ results'[1].status = final_status
              /\ results'[1].job_id = job_id
      ]_vars

\* the job turned terminal on the 3rd tick and the run ended there
C10_Witness ==
    /\ SqlDone
    /\ brokeAt = 3
    /\ tick = 3
    /\ results[1].status = "FINISHED"
    /\ results[1].job_id # None

\* --------------------------------------------------------------------- C11
\* C11: two successive calls of run_benchmark with the same workload, against a
\* control plane that registers one fresh job per submission, yield two results
\* with different job ids, and in the second call no job that its cleanup
\* listed as RUNNING is left without a cancel request when cancel_all_jobs has
\* returned (nothing between there and the submission issues a cancel request).
C11_RerunIsIdempotent ==
    /\ (pc = "done" /\ Len(results) = 2 /\ results[1].job_id # None
                    /\ results[2].job_id # None) =>
          results[1].job_id # results[2].job_id
    /\ (runNo = 2 /\ pc = "settle") =>
          \A i \in 1..Len(cl_jobs) :
             cl_jobs[i].status = "RUNNING" =>
                \E k \in 1..Len(cancelLog) : cancelLog[k] = cl_jobs[i].id

\* --------------------------------------------------------------------- C12
\* C12: a run never raises to its caller: whichever step fails (copying the job
\* file, baseline listing, submission, listing, detail query, cancel), the run
\* is never in the state of having ended by an exception.
C12_RunNeverRaises == pc # "raised"

\* --------------------------------------------------------------------- C13
\* C13 as stated: when the listing query fails on every poll tick of the whole
\* window, the run ends with status UNKNOWN and no metrics, for every exit code
\* of the submission.
C13_AllTicksFailedIsUnknown ==
    SqlDone =>
        /\ results[1].status = "UNKNOWN"
        /\ results[1].metrics = EmptyDict

\* C13 as amended: when the listing query fails on every poll tick, the run
\* ends after all max_wait / poll_interval ticks without a job id and without
\* metrics, with status UNKNOWN when the submission's exit code is non-zero and
\* FINISHED when it is 0.
C13_AllTicksFailedIsFallback ==
    SqlDone =>
        /\ tick = max_wait \div poll_interval
        /\ results[1].job_id = None
        /\ results[1].metrics = EmptyDict
        /\ results[1].status = IF returncode = 0 THEN "FINISHED" ELSE "UNKNOWN"

\* all ticks are over without a job id, although the baseline is empty and a
\* job is listed as RUNNING
C13_Witness ==
    /\ SqlDone
    /\ returncode # 0
    /\ results[1].status = "UNKNOWN"
    /\ existing_job_ids = {}
    /\ \E i \in 1..Len(jobs) : jobs[i].status = "RUNNING"

\* --------------------------------------------------------------------- C14
\* C14: when a detail query for the tracked job has answered on some tick of the
\* run and the loop ends on a tick that observes the terminal status, the
\* result carries metrics (those of the most recent answer), also when the
\* detail query of that last tick failed.
C14_FailedDetailKeepsPriorMetrics ==
    [][ (pc = "after_loop" /\ pc' = "done" /\ brokeAt # None /\ gotMetrics) =>
            results'[Len(results')].metrics.jobs # <<>> ]_vars

\* --------------------------------------------------------------------- C15
\* the sum of one counter over a list of vertex metrics, a missing counter
\* counting as 0
RECURSIVE TotalOf(_, _)
TotalOf(vertices, key) ==
    IF vertices = <<>> THEN 0
    ELSE (IF key \in DOMAIN Head(vertices) THEN Head(vertices)[key] ELSE 0)
         + TotalOf(Tail(vertices), key)

ExampleVertices ==
    << [k \in CounterKeys |->
           CASE k = "read-records" -> 10 [] k = "write-records" -> 5
             [] k = "read-bytes" -> 100 [] k = "write-bytes" -> 50],
       [k \in CounterKeys |->
           CASE k = "read-records" -> 20 [] k = "write-records" -> 0
             [] k = "read-bytes" -> 200 [] k = "write-bytes" -> 0] >>

\* the vertex list of job_details, [] when the key is missing
VerticesOf(details) == IF "vertices" \in DOMAIN details THEN details["vertices"] ELSE <<>>

\* C15: each of records_in, records_out, bytes_in, bytes_out of the job is the
\* sum of the corresponding counter over all vertices, a missing counter
\* counting as 0, and all four are 0 for an empty vertex list;
\* [{10,5,100,50},{20,0,200,0}] gives {30,5,300,50}.
C15_MetricsAreFieldwiseSums ==
    /\ pc = "summary" =>
          /\ job_metrics.records_in = TotalOf(VerticesOf(job_details), "read-records")
          /\ job_metrics.records_out = TotalOf(VerticesOf(job_details), "write-records")
          /\ job_metrics.bytes_in = TotalOf(VerticesOf(job_details), "read-bytes")
          /\ job_metrics.bytes_out = TotalOf(VerticesOf(job_details), "write-bytes")
          /\ VerticesOf(job_details) = <<>> =>
                /\ job_metrics.records_in = 0
                /\ job_metrics.records_out = 0
                /\ job_metrics.bytes_in = 0
                /\ job_metrics.bytes_out = 0
    /\ LET jm == JobMetrics([k \in {"vertices"} |-> ExampleVertices])
       IN  /\ jm.records_in = 30
           /\ jm.records_out = 5
           /\ jm.bytes_in = 300
           /\ jm.bytes_out = 50

\* two vertices, one of them without its write-records counter
C15_Witness ==
    /\ pc = "summary"
    /\ Len(VerticesOf(job_details)) = 2
    /\ "write-records" \notin DOMAIN job_details["vertices"][1]
    /\ job_metrics.records_in = 3
    /\ job_metrics.records_out = 2

\* --------------------------------------------------------------------- C16
\* a summary was computed for a FINISHED run with metrics
FinishedSummary == pc = "reported" /\ summary.printed /\ summary.status = "FINISHED"

Max(a, b) == IF a >= b THEN a ELSE b

\* C16 as stated: for a FINISHED run with metrics the throughput is
\* recordsProcessed divided by the larger of the job-reported duration and the
\* elapsed time of the run (durations in ms, throughput as num / den per s).
C16_ThroughputUsesLargerDuration ==
    FinishedSummary =>
        summary.throughput.num * Max(summary.duration_ms, summary.elapsed_ms)
            = summary.records_in * 1000 * summary.throughput.den

\* C16 as amended: for a FINISHED run with metrics the throughput is
\* recordsProcessed divided by the job-reported duration when that is positive,
\* and by the elapsed time of the run otherwise.
C16_ThroughputPrefersJobDuration ==
    FinishedSummary =>
        summary.throughput.num
              * (IF summary.duration_ms > 0 THEN summary.duration_ms ELSE summary.elapsed_ms)
            = summary.records_in * 1000 * summary.throughput.den

\* the job reports a duration shorter than the elapsed time of the run
C16_Witness ==
    /\ FinishedSummary
    /\ summary.duration_ms = 1000
    /\ summary.elapsed_ms = 4000
    /\ summary.throughput.num = summary.records_in * 1000
    /\ summary.throughput.den = 1000

\* --------------------------------------------------------------------- C17
\* C17: in the throughput of a FINISHED run, recordsProcessed is the records_in
\* the control plane reported whenever that is non-zero, and the caller's
\* num_records only when it reported zero.
C17_RecordsProcessedDefaultsOnZero ==
    FinishedSummary =>
        summary.records_in =
            IF summary.reported # 0 THEN summary.reported ELSE summary.num_records

\* --------------------------------------------------------------------- C18
\* C18: a poll tick whose listing query fails does not end the loop and sets no
\* terminal status, the next tick is attempted, and the tick counts as exactly
\* one tick of the budget: the loop is left only by the break of a tick that
\* observed a terminal status or after all max_wait / poll_interval ticks, and
\* no run has more ticks than that.
C18_FailedTickCountsAndContinues ==
    [][ /\ PollError =>
              /\ tick' = tick + 1
              /\ pc' = "loop"
              /\ final_status' = final_status
              /\ brokeAt' = brokeAt
              /\ job_id' = job_id
              /\ LoopContinues(tick') => PollGuard'
        /\ (pc = "loop" /\ pc' = "after_loop") =>
              \/ brokeAt' # None /\ final_status' \in TerminalStatuses
              \/ tick = max_wait \div poll_interval /\ tick' = tick
        /\ (pc = "loop" /\ pc' = "loop") => tick' \in {tick, tick + 1}
        /\ tick' <= max_wait \div poll_interval
      ]_vars

\* two ticks are over and the loop goes on without a job id, although a job
\* outside the (empty) baseline has been listed since before the submission:
\* the listing query of both ticks failed
C18_Witness ==
    /\ pc = "loop"
    /\ tick = 2
    /\ job_id = None
    /\ final_status = "UNKNOWN"
    /\ existing_job_ids = {}
    /\ visibleAtSubmit \cap IdsOf(jobs) # {}

\* --------------------------------------------------------------------- C19
\* C19: no failure of the cleanup is fatal: whether its listing query or one of
\* its cancel requests fails, cancel_all_jobs returns to run_benchmark, which
\* goes on to the settle wait and, for a known workload, to the workload's
\* function and its submission; no step of the cleanup raises.
C19_CleanupFailureIsNotFatal ==
    [][ /\ (pc \in {"cleanup", "cancel_loop"} /\ pc' # pc) =>
              pc' \in {"cancel_loop", "settle", "crashed"}
        /\ (pc = "cancel_loop" /\ cancelFailed' # cancelFailed) =>
              (pc' = "settle" /\ cleanups' = cleanups + 1)
        /\ (pc = "settle" /\ pc' # pc) => pc' \in {"dispatch", "crashed"}
        /\ (pc = "dispatch" /\ workload \in KnownWorkloads /\ pc' # pc) =>
              pc' \in {"copy", "crashed"}
        /\ (pc = "baseline" /\ pc' # pc) => pc' \in {"submit", "crashed"}
        /\ (pc = "submit" /\ pc' # pc) => (pc' \in {"loop", "crashed"})
        /\ (pc' = "raised" /\ pc # "raised") => pc = "copy"
      ]_vars

\* a cancel request of the cleanup failed and the run is about to submit
C19_Witness ==
    /\ pc = "submit"
    /\ cancelFailed # {}
    /\ cleanups = 1
    /\ ENABLED Submit

\* --------------------------------------------------------------------- C20
\* C20: the steps of a run happen in the order cleanup, settle wait, baseline
\* listing, submission, first poll: before the submission no submission and no
\* poll tick has happened, and when the submission is invoked the cleanup is
\* over and every job it sent a cancel request for that is still listed is
\* part of the baseline.
C20_BaselineAfterCleanupBeforeSubmission ==
    /\ pc \in {"cleanup", "cancel_loop", "settle", "dispatch", "copy", "baseline", "submit"} =>
          (submits = 0 /\ tick = 0)
    /\ pc \in {"settle", "dispatch", "copy", "baseline", "submit"} => cleanups = 1
    /\ pc = "submit" =>
          \A k \in 1..Len(cancelLog) :
             cancelLog[k] \in IdsOf(jobs) => cancelLog[k] \in existing_job_ids

\* --------------------------------------------------------------------- C21
\* C21: the cleanup issues cancel requests only for jobs whose status in its
\* listing is RUNNING (a job listed as CREATED, FINISHED, FAILED or CANCELED
\* gets none), and no job gets more than one cancel request per cleanup.
C21_CancelsOnlyRunningOnce ==
    pc \in {"cancel_loop", "settle"} =>
        /\ \A k \in 1..Len(cancelLog) :
              \E i \in 1..Len(cl_jobs) :
                 /\ cl_jobs[i].id = cancelLog[k]
                 /\ cl_jobs[i].status = "RUNNING"
        /\ \A k, l \in 1..Len(cancelLog) : cancelLog[k] = cancelLog[l] => k = l

\* the cleanup listed a CREATED job and a RUNNING job and has sent its one
\* cancel request, to the RUNNING one
C21_Witness ==
    /\ pc = "settle"
    /\ Len(cl_jobs) = 2
    /\ cl_jobs[1].status = "CREATED"
    /\ cl_jobs[2].status = "RUNNING"
    /\ cancelLog = <<cl_jobs[2].id>>
    /\ cancelFailed = {}

\* --------------------------------------------------------------------- C22
\* the jobs of a listing that are not CANCELED, as the entries _get_job_metrics
\* makes of them
Candidates(listing) ==
    {[id |-> listing[i].id, status |-> listing[i].status] :
        i \in {j \in 1..Len(listing) : listing[j].status # "CANCELED"}}

\* the most recent of them: the control plane numbers its jobs as they come
MostRecent(listing) ==
    CHOOSE c \in Candidates(listing) : \A d \in Candidates(listing) : d.id <= c.id

\* C22: _get_job_metrics called without a target job id returns the metrics of
\* a single job, the most recent job whose status is not CANCELED, for every
\* listing that holds at least one such job (and its queries answer).
C22_NoTargetReturnsMostRecent ==
    [][ (metrics_returned' # metrics_returned /\ metrics_returned'.has_jobs
                                              /\ Candidates(jobs) # {}) =>
            metrics_returned'.jobs = <<MostRecent(jobs)>> ]_vars

\* --------------------------------------------------------------------- C23
\* the ids a process has sent cancel requests for
CancelledBy(r) == {runs[r].cancelLog[k] : k \in 1..Len(runs[r].cancelLog)}

\* the cleanup of r has sent a cancel request for the job o submitted
CancelsJobOf(r, o) == runs[o].submitted # None /\ runs[o].submitted \in CancelledBy(r)

\* both processes have taken the same job as their own
SameJob(r, o) == runs[r].job_id # None /\ runs[r].job_id = runs[o].job_id

\* C23: nothing in two interleaved runs keeps them apart. A cleanup sends its
\* cancel requests to the jobs it listed as RUNNING whoever submitted them, the
\* other run's job included; the id a run resolves is any listed id outside
\* its own baseline, so both runs can hold the same id, which then is the job
\* of at most one of them. Both races are reachable (C23_Witness).
C23_RunsAreNotKeptApart ==
    \A r \in TwoRuns :
       /\ runs[r].pc = "cancel_loop" =>
             \A k \in 1..Len(runs[r].cancelLog) :
                \E i \in 1..(runs[r].cl_i - 1) :
                   /\ runs[r].cl_jobs[i].id = runs[r].cancelLog[k]
                   /\ runs[r].cl_jobs[i].status = "RUNNING"
       /\ runs[r].job_id # None => runs[r].job_id \notin runs[r].existing_job_ids
       /\ \A o \in TwoRuns \ {r} :
             /\ SameJob(r, o) =>
                   (runs[r].submitted # runs[r].job_id \/ runs[o].submitted # runs[o].job_id)
             /\ (runs[r].submitted # None /\ runs[o].submitted # None) =>
                   runs[r].submitted # runs[o].submitted

\* the cleanup of one run has sent a cancel request for the job the other run
\* submitted, and both runs have resolved the same job id
C23_Witness ==
    \E r \in TwoRuns : \E o \in TwoRuns \ {r} :
       /\ CancelsJobOf(r, o)
       /\ SameJob(r, o)
       /\ runs[o].pc = "loop"

\* --------------------------------------------------------------------- C24
\* C24: the poll loop always terminates. Whatever the control plane does (jobs
\* never appearing, never terminating, the listing always failing), a run whose
\* submission has returned performs at most max_wait // poll_interval (60)
\* poll ticks and then produces its result.
C24_PollLoopTerminates ==
    /\ [](tick <= max_wait \div poll_interval /\ tick <= 60)
    /\ [](pc = "done" /\ submits = 1 => SqlDone)
    /\ (pc = "loop") ~> SqlDone

\* all 60 ticks are over, no job was ever listed, and the result is there
C24_Witness ==
    /\ SqlDone
    /\ tick = 60
    /\ nextId = 1
    /\ results[1].job_id = None
    /\ returncode = 1

\* --------------------------------------------------------------------- C25
\* the step on which _run_sql_job returns, and the result it returns
Returns == pc = "after_loop" /\ pc' = "done"

Returned == results'[Len(results')]

\* C25: the fallback never overrides an observed terminal status. If a poll
\* tick listed the tracked job as FAILED or CANCELED, the result status is
\* exactly that status, also when the submission's exit code is 0; and a
\* result with status FAILED or CANCELED has a job_id that is not None, the id
\* of the job the last tick listed with that status.
C25_FallbackKeepsObservedTerminal ==
    [][ /\ PollFinal =>
              /\ final_status' = PickedEntry.status
              /\ job_id' = PickedEntry.id
              /\ brokeAt' = tick'
        /\ (pc = "after_loop" /\ pc' = "after_loop") =>
              (final_status' = final_status /\ job_id' = job_id /\ tick' = tick)
        /\ Returns =>
              /\ final_status \in {"FAILED", "CANCELED"} => Returned.status = final_status
              /\ Returned.status \in {"FAILED", "CANCELED"} =>
                    /\ Returned.status = final_status
                    /\ Returned.job_id = job_id
                    /\ Returned.job_id # None
                    /\ brokeAt = tick
      ]_vars

\* the submission returned exit code 0, the job was listed as CANCELED, and
\* the result says CANCELED
C25_Witness ==
    /\ SqlDone
    /\ returncode = 0
    /\ results[1].status = "CANCELED"
    /\ results[1].job_id # None
    /\ brokeAt = tick

\* --------------------------------------------------------------------- C26
\* C26: whenever a result has status FINISHED, either the tracked job was
\* listed as FINISHED on the last poll tick, or the submission's exit code was
\* 0 and no tick observed a terminal status; so a failed submission whose job
\* no listing showed as FINISHED never yields a FINISHED result.
C26_FinishedHasAReason ==
    [][ /\ (pc = "loop" /\ final_status' = "FINISHED") =>
              /\ PollFinal
              /\ PickedEntry.status = "FINISHED"
              /\ brokeAt' = tick'
        /\ pc = "loop" => final_status = "UNKNOWN"
        /\ (Returns /\ Returned.status = "FINISHED") =>
              \/ final_status = "FINISHED" /\ brokeAt = tick /\ job_id # None
              \/ final_status = "UNKNOWN" /\ brokeAt = None /\ returncode = 0
      ]_vars

\* the submission failed, the job was listed as FINISHED all the same, and the
\* result says FINISHED
C26_Witness ==
    /\ SqlDone
    /\ returncode # 0
    /\ results[1].status = "FINISHED"
    /\ brokeAt = tick
    /\ results[1].job_id # None

\* --------------------------------------------------------------------- C27
\* a step that is one iteration of the poll loop
TickStep == pc = "loop" /\ tick' = tick + 1

\* C27: a poll tick on which the listing query fails, or on which the listing
\* holds no job outside the baseline, leaves job_id, final_status and
\* final_metrics as they were: a tick changes them only by picking the first
\* listed job outside the baseline. So a job_id resolved on an earlier tick is
\* still the job_id of the result when the job has left the listing since.
C27_EmptyTickKeepsTrackedJob ==
    [][ /\ TickStep =>
              \/ /\ job_id' = job_id
                 /\ final_status' = final_status
                 /\ final_metrics' = final_metrics
                 /\ pc' = "loop"
              \/ /\ NewJob(jobs, existing_job_ids) # None
                 /\ job_id' = jobs[NewJob(jobs, existing_job_ids)].id
        /\ (pc \in {"loop", "after_loop"} /\ pc' \in {"loop", "after_loop"}
                                          /\ ~TickStep) =>
              (job_id' = job_id /\ final_status' = final_status
                                /\ final_metrics' = final_metrics)
        /\ Returns => Returned.job_id = job_id
      ]_vars

\* a job was resolved, was never seen terminal, and is no longer listed when
\* the budget is used up: the result still names it
C27_Witness ==
    /\ SqlDone
    /\ Exhausted
    /\ results[1].job_id # None
    /\ results[1].job_id \notin IdsOf(jobs)
    /\ existing_job_ids = {}
    /\ jobs = <<>>

\* --------------------------------------------------------------------- C28
\* the call of run_benchmark is over, by a return or by an exception
Ended == pc \in {"done", "raised"}

\* the call was made with a name that is no workload: it returned {}
UnknownWorkload == pc = "done" /\ results = <<EmptyResult>>

\* C28: run_benchmark invokes the submission exactly once for a known
\* workload, also when the baseline listing query fails (the baseline is then
\* empty); for an unknown workload name it performs the cleanup, invokes no
\* submission and no poll, and returns an empty result.
C28_SubmitsExactlyOnce ==
    /\ submits <= 1
    /\ pc \in {"loop", "after_loop"} => submits = 1
    /\ (Ended /\ ~UnknownWorkload) => submits = 1
    /\ UnknownWorkload => (cleanups = 1 /\ submits = 0 /\ tick = 0)
    /\ (pc = "done" /\ submits = 0) => UnknownWorkload

\* --------------------------------------------------------------------- C29
\* a metrics dict holds at most one job entry, and that entry is job `id`
DescribesOnly(m, id) ==
    /\ Len(m.jobs) <= 1
    /\ m.jobs # <<>> => m.jobs[1].id = id

\* C29: metrics in a result always describe the job of the result.
\* _get_job_metrics called with a target job id returns at most one job entry
\* and its id is the target, so whenever a result has non-empty metrics its
\* single entry's id is the result's job_id; and if the target is absent from
\* the listing the metrics query itself made, the metrics hold no job entry.
C29_MetricsDescribeResultJob ==
    [][ /\ DescribesOnly(final_metrics', job_id')
        /\ TickStep =>
              \A id \in JobIds : \A m \in GetJobMetrics(jobs', id) :
                 /\ DescribesOnly(m, id)
                 /\ id \notin IdsOf(jobs') => m.jobs = <<>>
        /\ (PollFinal /\ job_id' \notin IdsOf(jobs')) => final_metrics'.jobs = <<>>
        /\ Returns => DescribesOnly(Returned.metrics, Returned.job_id)
      ]_vars

\* the result carries the entry of its own job, which the control plane
\* lists after a job of the baseline
C29_Witness ==
    /\ SqlDone
    /\ results[1].metrics.jobs # <<>>
    /\ results[1].metrics.jobs[1].id = results[1].job_id
    /\ Len(jobs) = 2
    /\ jobs[2].id = results[1].job_id
    /\ jobs[1].id \in existing_job_ids

\* --------------------------------------------------------------------- C30
\* C30: polling never overlaps the submission and every poll is preceded by a
\* wait. The first listing query of the poll loop (line 270) is issued only
\* after the submission call has returned and one full poll_interval sleep has
\* elapsed, and between any two consecutive listing queries of the loop there
\* is exactly one poll_interval sleep.
C30_SleepBeforeEachPoll ==
    [][ /\ queries' # queries =>
              /\ queries' = queries + 1
              /\ pc \notin {"submit", "submitting"}
              /\ submits = 1
              /\ slept = poll_interval * (queries + 1)
        /\ slept' # slept =>
              /\ slept' = slept + poll_interval
              /\ slept = poll_interval * queries
              /\ pc \notin {"submit", "submitting"}
        /\ pc' \in {"submit", "submitting"} => (queries' = 0 /\ slept' = 0)
      ]_vars

\* three listing queries have been issued, the third after 6 seconds of sleep
C30_Witness ==
    /\ pc = "loop"
    /\ queries = 3
    /\ slept = 3 * poll_interval
    /\ tick = 3

====
